---- MODULE Spec2Model ----
(***************************************************************************)
(* Submission evaluation pipeline of the LMS server:                       *)
(*   server/services/judge0.ts  Judge0Service (executeCode,                *)
(*                              executeWithTestCases)                      *)
(*   server/routes.ts           POST /api/tasks/:taskId/submit,            *)
(*                              checkTaskCompletionAchievements            *)
(*   server/storage.ts          DatabaseStorage (drizzle / PostgreSQL)     *)
(*   server/services/...        CertificateService.generateCertificate     *)
(* Text is modelled as a sequence of one-character strings so that         *)
(* String.prototype.trim and String.prototype.includes are computed.       *)
(***************************************************************************)
EXTENDS Integers, Sequences, FiniteSets, TLC

(* ------------------------------ bounds --------------------------------- *)
MaxStrLen == 3
MaxCases == 2

(* --------------------------- text helpers ------------------------------ *)
Alphabet == {"a", " ", "\n"}

WhiteSpace == {" ", "\n"}

StrsOfLen(n) == [1..n -> Alphabet]

Strs == UNION {StrsOfLen(n) : n \in 0..MaxStrLen}

RECURSIVE trimStart(_)
trimStart(s) ==
  IF s = <<>> THEN <<>>
  ELSE IF Head(s) \in WhiteSpace THEN trimStart(Tail(s)) ELSE s

RECURSIVE trimEnd(_)
trimEnd(s) ==
  IF s = <<>> THEN <<>>
  ELSE IF s[Len(s)] \in WhiteSpace THEN trimEnd(SubSeq(s, 1, Len(s) - 1)) ELSE s

(* trimStart in place of trim *)
trim_StartOnly(s) == trimStart(s)

trim(s) == trimEnd(trimStart(s))

(* an optional string: JavaScript null / undefined, or a value *)
NullStr == [isNull |-> TRUE, s |-> <<>>]

Str(s) == [isNull |-> FALSE, s |-> s]

(* (x || '') for an optional string *)
OrEmpty(o) == IF o.isNull THEN <<>> ELSE o.s

(* ------------------------- execution service --------------------------- *)
(* LANGUAGE_IDS[language]: the mapped id, "function" for a key inherited   *)
(* from Object.prototype, 0 for undefined.                                 *)
LANGUAGE_IDS(language) ==
  CASE language = "java" -> 62
    [] language = "python" -> 71
    [] language = "cpp" -> 54
    [] language = "c" -> 50
    [] language = "javascript" -> 63
    [] language = "constructor" -> -1
    [] OTHER -> 0

maxAttempts == 30

StatusIds == {1, 2, 3, 4, 6}

Description(id) ==
  CASE id = 1 -> "In Queue"
    [] id = 2 -> "Processing"
    [] id = 3 -> "Accepted"
    [] id = 4 -> "Wrong Answer"
    [] OTHER -> "Compilation Error"

(* what one HTTP exchange with the execution service can deliver *)
HttpErrors == {"Judge0 API error: 503 Service Unavailable", "fetch failed"}

NoResult == [status |-> 0, stdout |-> NullStr]

Returned(r) == [kind |-> "returned", result |-> r, message |-> ""]

Thrown(m) == [kind |-> "thrown", result |-> NoResult, message |-> m]

NoOutcome == [kind |-> "none", result |-> NoResult, message |-> ""]

TypeErrorMessage == "Cannot read properties of undefined (reading 'id')"

TimeoutMessage == "Submission timed out"

UnsupportedMessage(language) == "Unsupported language: " \o language

(* responses of GET /submissions/:token: no output while the job is     *)
(* queued or processing                                                   *)
StdoutSet == {NullStr, Str(<<"a">>), Str(<<" ", "a">>)}

PollBodies ==
  [status : {1, 2}, stdout : {NullStr}]
    \cup [status : StatusIds \ {1, 2}, stdout : StdoutSet]

(* only status 1 treated as not finished *)
IsPending_QueuedOnly(r) == r.status = 1

IsPending(r) == r.status = 1 \/ r.status = 2

(* the catch branch drops the error text *)
CaseResult_NoMessage(testCase, out) ==
  IF out.kind = "returned"
  THEN LET actualOutput == trim(OrEmpty(out.result.stdout))
           expectedOutput == trim(testCase.expectedOutput)
           passed == actualOutput = expectedOutput /\ out.result.status = 3
       IN [input |-> testCase.input,
           expectedOutput |-> expectedOutput,
           actualOutput |-> actualOutput,
           passed |-> passed,
           status |-> Description(out.result.status)]
  ELSE [input |-> testCase.input,
        expectedOutput |-> testCase.expectedOutput,
        actualOutput |-> <<>>,
        passed |-> FALSE,
        status |-> "Error"]

(* ----------------------- executeWithTestCases -------------------------- *)
(* one entry of the results array *)
CaseResult(testCase, out) ==
  IF out.kind = "returned"
  THEN LET actualOutput == trim(OrEmpty(out.result.stdout))
           expectedOutput == trim(testCase.expectedOutput)
           passed == actualOutput = expectedOutput /\ out.result.status = 3
       IN [input |-> testCase.input,
           expectedOutput |-> expectedOutput,
           actualOutput |-> actualOutput,
           passed |-> passed,
           status |-> Description(out.result.status)]
  ELSE [input |-> testCase.input,
        expectedOutput |-> testCase.expectedOutput,
        actualOutput |-> <<>>,
        passed |-> FALSE,
        status |-> "Error: " \o out.message]

Languages == {"java", "ruby", "constructor"}

TestCaseSet ==
  {[input |-> "x", expectedOutput |-> <<"a">>],
   [input |-> "y", expectedOutput |-> <<"a", "\n">>]}

TestCaseLists == UNION {[1..n -> TestCaseSet] : n \in 0..MaxCases}

VARIABLES
  language,     \* executeWithTestCases argument
  testCases,    \* executeWithTestCases argument
  pc,           \* where the service call is suspended
  idx,          \* number of test cases the for-of loop has taken
  attempts,     \* executeCode local
  result,       \* executeCode local: body of the last poll response
  results,      \* executeWithTestCases local
  totalPassed,  \* executeWithTestCases local
  ret,          \* value executeWithTestCases resolved with
  execOut,      \* how the current executeCode call ended, if it has
  calls,        \* executeCode calls made
  netSubmits,   \* POST /submissions requests issued by the current call
  netPolls      \* GET /submissions/:token requests issued by the current call

jvars == <<language, testCases, pc, idx, attempts, result, results,
           totalPassed, ret, execOut, calls, netSubmits, netPolls>>

VARIABLES
  h,                \* per request: position and locals of the submit handler
  submissions,      \* submissions table, one row per request that inserted
  userProgress,     \* user_progress table
  userAchievements, \* user_achievements table
  xp,               \* users.xp
  response,         \* what the handler sent for each request
  faults,           \* store calls that were rejected so far
  credited          \* updateUserXP calls that completed: amounts, by reason

hvars == <<h, submissions, userProgress, userAchievements, xp, response,
           faults, credited>>

VARIABLES
  tasks,            \* tasks table
  call,             \* one storage.isTaskUnlocked call: arguments and outcome
  certificates,     \* certificates table
  g,                \* per certificate request: position and locals
  up                \* per storage.updateProgress call: position and locals

svars == <<tasks, call, certificates, g, up>>

vars == <<jvars, hvars, svars>>

NoReturn == [results |-> <<>>, totalPassed |-> -1, totalTests |-> -1]

(* totalPassed++ without the if (passed) *)
EndCase_CountAll(out) ==
  LET r == CaseResult(testCases[idx], out)
  IN /\ execOut' = out
     /\ results' = Append(results, r)
     /\ totalPassed' = totalPassed + 1
     /\ pc' = "for"

(* executeCode ends (return or throw): the loop body of                   *)
(* executeWithTestCases records the case and goes to the next iteration   *)
EndCase(out) ==
  LET r == CaseResult(testCases[idx], out)
  IN /\ execOut' = out
     /\ results' = Append(results, r)
     /\ totalPassed' = IF r.passed THEN totalPassed + 1 ELSE totalPassed
     /\ pc' = "for"

(* for (const testCase of testCases): next iteration, executeCode up to   *)
(* its first await; or the return after the last iteration                *)
ForOf ==
  /\ pc = "for"
  /\ IF idx < Len(testCases)
     THEN /\ idx' = idx + 1
          /\ calls' = calls + 1
          /\ attempts' = 0
          /\ result' = NoResult
          /\ netPolls' = 0
          /\ IF LANGUAGE_IDS(language) = 0
             THEN /\ netSubmits' = 0
                  /\ LET out == Thrown(UnsupportedMessage(language))
                         r == CaseResult(testCases[idx + 1], out)
                     IN /\ execOut' = out
                        /\ results' = Append(results, r)
                        /\ totalPassed' = totalPassed
                        /\ pc' = "for"
             ELSE /\ netSubmits' = 1
                  /\ execOut' = NoOutcome
                  /\ pc' = "submitCode"
                  /\ UNCHANGED <<results, totalPassed>>
          /\ UNCHANGED <<ret>>
     ELSE /\ ret' = [results |-> results,
                     totalPassed |-> totalPassed,
                     totalTests |-> Len(testCases)]
          /\ pc' = "return"
          /\ UNCHANGED <<idx, calls, attempts, result, results, totalPassed,
                         execOut, netSubmits, netPolls>>
  /\ UNCHANGED <<language, testCases>>
  /\ UNCHANGED <<hvars, svars>>

(* await this.submitCode(submission) settles *)
SubmitCode ==
  /\ pc = "submitCode"
  /\ \/ /\ attempts' = 0
        /\ netPolls' = netPolls + 1
        /\ pc' = "getSubmissionResult"
        /\ UNCHANGED <<results, totalPassed, execOut>>
     \/ \E m \in HttpErrors :
          /\ EndCase(Thrown(m))
          /\ UNCHANGED <<attempts, netPolls>>
  /\ UNCHANGED <<language, testCases, idx, calls, result, ret, netSubmits>>
  /\ UNCHANGED <<hvars, svars>>

(* await this.getSubmissionResult(token) settles *)
GetSubmissionResult ==
  /\ pc = "getSubmissionResult"
  /\ \/ \E body \in PollBodies :
          /\ result' = body
          /\ IF ~IsPending(body)
             THEN EndCase(Returned(body))
             ELSE /\ pc' = "setTimeout"
                  /\ UNCHANGED <<results, totalPassed, execOut>>
     \/ \E m \in HttpErrors \cup {TypeErrorMessage} :
          /\ EndCase(Thrown(m))
          /\ UNCHANGED result
  /\ UNCHANGED <<language, testCases, idx, calls, attempts, ret,
                 netSubmits, netPolls>>
  /\ UNCHANGED <<hvars, svars>>

(* while (attempts <= maxAttempts) *)
SetTimeout_LoopLE ==
  /\ pc = "setTimeout"
  /\ attempts' = attempts + 1
  /\ IF attempts + 1 <= maxAttempts
     THEN /\ netPolls' = netPolls + 1
          /\ pc' = "getSubmissionResult"
          /\ UNCHANGED <<results, totalPassed, execOut>>
     ELSE /\ EndCase(Thrown(TimeoutMessage))
          /\ UNCHANGED netPolls
  /\ UNCHANGED <<language, testCases, idx, calls, result, ret, netSubmits>>
  /\ UNCHANGED <<hvars, svars>>

(* the 1000 ms timer fires: attempts++, loop test, next poll or throw *)
SetTimeout ==
  /\ pc = "setTimeout"
  /\ attempts' = attempts + 1
  /\ IF attempts + 1 < maxAttempts
     THEN /\ netPolls' = netPolls + 1
          /\ pc' = "getSubmissionResult"
          /\ UNCHANGED <<results, totalPassed, execOut>>
     ELSE /\ EndCase(Thrown(TimeoutMessage))
          /\ UNCHANGED netPolls
  /\ UNCHANGED <<language, testCases, idx, calls, result, ret, netSubmits>>
  /\ UNCHANGED <<hvars, svars>>

(* -------------------- one case, scored in isolation -------------------- *)
(* the scoring of lines 138-152 applied to one test case and one terminal  *)
(* execution result, over all texts up to MaxStrLen                        *)
CompareCase ==
  /\ pc = "compare"
  /\ LET r == CaseResult(testCases[idx], execOut)
     IN /\ results' = Append(results, r)
        /\ totalPassed' = IF r.passed THEN totalPassed + 1 ELSE totalPassed
  /\ pc' = "compared"
  /\ UNCHANGED <<language, testCases, idx, attempts, result, ret, execOut,
                 calls, netSubmits, netPolls>>
  /\ UNCHANGED <<hvars, svars>>

(* ======================= store and submit handler ====================== *)
(* rows of the tables the handler reads but never writes *)
Users == {"u1"}

ModuleRows == {[id |-> "m1", courseId |-> "c1"]}

TaskRows ==
  {[id |-> "t1", moduleId |-> "m1", xpReward |-> 10, order |-> 1,
    isActive |-> TRUE],
   [id |-> "t2", moduleId |-> "m1", xpReward |-> 0, order |-> 2,
    isActive |-> TRUE],
   [id |-> "t3", moduleId |-> "m1", xpReward |-> 10, order |-> 3,
    isActive |-> FALSE]}

TaskIds == {t.id : t \in TaskRows}

(* task ids a request can name: the tasks and one id with no row *)
RequestTaskIds == TaskIds \cup {"t9"}

TestCaseRows ==
  {[taskId |-> "t1", input |-> "x", expectedOutput |-> <<"a">>,
    isHidden |-> FALSE, order |-> 1],
   [taskId |-> "t1", input |-> "y", expectedOutput |-> <<"a", "\n">>,
    isHidden |-> TRUE, order |-> 2]}

AchievementRows ==
  {[id |-> "a1", name |-> <<"1", " ", "T", "a", "s", "k">>, xpReward |-> 25],
   [id |-> "a10", name |-> <<"1", "0", " ", "T", "a", "s", "k", "s">>,
    xpReward |-> 0],
   [id |-> "a9", name |-> <<"C", "o", "m", "p", "l", "e", "t", "i", "o", "n">>,
    xpReward |-> 5]}

CourseRows ==
  {[id |-> "c1", level |-> <<"b", "e", "g", "i", "n", "n", "e", "r">>,
    xpReward |-> 100]}

(* course ids a request can name: the course and one id with no row *)
RequestCourseIds == {c.id : c \in CourseRows} \cup {"c9"}

AchievementIds == {a.id : a \in AchievementRows}

(* rows ordered by ascending order column (orderBy(asc(order))) *)
RECURSIVE SortByOrder(_)
SortByOrder(rows) ==
  IF rows = {} THEN <<>>
  ELSE LET first == CHOOSE r \in rows : \A q \in rows : r.order <= q.order
       IN <<first>> \o SortByOrder(rows \ {first})

getTask(id) == {t \in tasks : t.id = id}

getTasksByModule(moduleId) ==
  SortByOrder({t \in tasks : t.moduleId = moduleId /\ t.isActive})

getTestCasesByTask(taskId) ==
  SortByOrder({c \in TestCaseRows : c.taskId = taskId})

(* every order in which select() without orderBy can deliver the rows *)
Orderings(rows) ==
  {q \in [1..Cardinality(rows) -> rows] :
     \A i, j \in 1..Cardinality(rows) : i # j => q[i] # q[j]}

(* Array.prototype.findIndex, 1-based; 0 when no element matches *)
findIndex(seq, id) ==
  IF \E i \in 1..Len(seq) : seq[i].id = id
  THEN CHOOSE i \in 1..Len(seq) :
         seq[i].id = id /\ \A j \in 1..(i - 1) : seq[j].id # id
  ELSE 0

(* the completion of the previous task is not looked up *)
isTaskUnlocked_NoProgressCheck(progress, userId, taskId) ==
  IF getTask(taskId) = {} THEN "false"
  ELSE LET task == CHOOSE t \in getTask(taskId) : TRUE
           tasksInModule == getTasksByModule(task.moduleId)
           taskIndex == findIndex(tasksInModule, taskId)
       IN IF taskIndex = 0 THEN "throws" ELSE "true"

(* isTaskUnlocked against the user_progress rows it selects from: what   *)
(* the promise resolves with ("true", "false"), or "throws" when         *)
(* tasksInModule[taskIndex - 1] is undefined (findIndex gave -1)         *)
isTaskUnlocked(progress, userId, taskId) ==
  IF getTask(taskId) = {} THEN "false"
  ELSE LET task == CHOOSE t \in getTask(taskId) : TRUE
           tasksInModule == getTasksByModule(task.moduleId)
           taskIndex == findIndex(tasksInModule, taskId)
       IN IF taskIndex = 1 THEN "true"
          ELSE IF taskIndex = 0 THEN "throws"
          ELSE LET previousTask == tasksInModule[taskIndex - 1]
               IN IF \E i \in 1..Len(progress) :
                       /\ progress[i].userId = userId
                       /\ progress[i].taskId = previousTask.id
                       /\ progress[i].isCompleted
                  THEN "true" ELSE "false"

(* String.prototype.includes *)
includes(s, sub) ==
  \E i \in 0..(Len(s) - Len(sub)) : SubSeq(s, i + 1, i + Len(sub)) = sub

toLowerCase(s) ==
  [i \in 1..Len(s) |-> CASE s[i] = "T" -> "t"
                          [] s[i] = "C" -> "c"
                          [] OTHER -> s[i]]

milestones == <<1, 5, 10, 25, 50, 100>>

(* Number.prototype.toString of a milestone *)
toString(n) ==
  CASE n = 1 -> <<"1">>
    [] n = 5 -> <<"5">>
    [] n = 10 -> <<"1", "0">>
    [] n = 25 -> <<"2", "5">>
    [] n = 50 -> <<"5", "0">>
    [] OTHER -> <<"1", "0", "0">>

MilestoneMatch(a, milestone) ==
  /\ includes(toLowerCase(a.name), <<"t", "a", "s", "k">>)
  /\ includes(a.name, toString(milestone))

(* achievements.find(...): index of the first match in the list, 0 if none *)
findAchievement(achievements, milestone) ==
  IF \E i \in 1..Len(achievements) : MilestoneMatch(achievements[i], milestone)
  THEN CHOOSE i \in 1..Len(achievements) :
         /\ MilestoneMatch(achievements[i], milestone)
         /\ \A j \in 1..(i - 1) : ~MilestoneMatch(achievements[j], milestone)
  ELSE 0

(* position in milestones, after position k, of the next milestone that   *)
(* is reached and has a matching achievement; 0 when the loop runs out    *)
NextMilestone(achievements, completedTasks, k) ==
  LET hits == {m \in (k + 1)..Len(milestones) :
                 /\ completedTasks >= milestones[m]
                 /\ findAchievement(achievements, milestones[m]) # 0}
  IN IF hits = {} THEN 0 ELSE CHOOSE m \in hits : \A n \in hits : m <= n

(* executeWithTestCases as the handler sees it: the cases scored in order *)
(* against how each executeCode call ended                                *)
RECURSIVE ScoreAll(_, _)
ScoreAll(cases, outs) ==
  IF cases = <<>> THEN <<>>
  ELSE <<CaseResult(Head(cases), Head(outs))>> \o ScoreAll(Tail(cases), Tail(outs))

executeWithTestCases(cases, outs) ==
  LET rs == ScoreAll(cases, outs)
  IN [results |-> rs,
      totalPassed |-> Cardinality({i \in 1..Len(rs) : rs[i].passed}),
      totalTests |-> Len(cases)]

(* ends of an executeCode call the handler's evaluation is driven with *)
HandlerOutcomes ==
  {Returned([status |-> 3, stdout |-> Str(<<"a">>)]),
   Returned([status |-> 4, stdout |-> Str(<<"a">>)]),
   Thrown("Judge0 API error: 503 Service Unavailable")}

Requests == {"r1", "r2"}

MaxFaults == 2

(* request bodies: code only; code plus the columns insertSubmissionSchema *)
(* also accepts; empty code, which the schema rejects                      *)
Bodies ==
  {[code |-> "ok", status |-> "", testCasesPassed |-> 0, totalTestCases |-> 0],
   [code |-> "ok", status |-> "accepted", testCasesPassed |-> 5,
    totalTestCases |-> 1],
   [code |-> "", status |-> "", testCasesPassed |-> 0, totalTestCases |-> 0]}

NoBody == [code |-> "", status |-> "", testCasesPassed |-> 0, totalTestCases |-> 0]

NoRow == [present |-> FALSE, userId |-> "", taskId |-> "", status |-> "",
          testCasesPassed |-> 0, totalTestCases |-> 0]

NoResponse == [http |-> 0, message |-> "", error |-> "",
               submission |-> NoRow, results |-> <<>>,
               totalPassed |-> -1, totalTests |-> -1]

Message(code, message, error) ==
  [NoResponse EXCEPT !.http = code, !.message = message, !.error = error]

StoreError == "database error"

IdleLocals ==
  [pc |-> "idle", userId |-> "", taskId |-> "", body |-> NoBody,
   ret |-> NoReturn, status |-> "", existing |-> 0, currentXp |-> 0,
   amount |-> 0, reason |-> "", achievements |-> <<>>, completedTasks |-> 0,
   k |-> 0, error |-> ""]

NoCredits == [a \in AchievementIds \cup {"task", "course"} |-> 0]

HandlerIdle ==
  /\ h = [r \in Requests |-> IdleLocals]
  /\ submissions = [r \in Requests |-> NoRow]
  /\ userProgress = <<>>
  /\ userAchievements = <<>>
  /\ xp = [u \in Users |-> 0]
  /\ response = [r \in Requests |-> NoResponse]
  /\ faults = 0
  /\ credited = NoCredits

Callers == {"g1", "g2"}

IdleProgress ==
  [pc |-> "idle", userId |-> "", courseId |-> "", moduleId |-> "",
   taskId |-> "", existing |-> 0]

IdleCall ==
  [pc |-> "idle", userId |-> "", courseId |-> "", currentXp |-> 0,
   amount |-> 0, reason |-> "", levelAchievements |-> <<>>, k |-> 0,
   http |-> 0, certificateNumber |-> 0, message |-> ""]

NoCall == [userId |-> "", taskId |-> "", result |-> "none"]

(* the tables and calls the submit handler and the execution service do   *)
(* not write                                                              *)
StoreIdle ==
  /\ tasks = TaskRows
  /\ call = NoCall
  /\ certificates = <<>>
  /\ g = [c \in Callers |-> IdleCall]
  /\ up = [c \in Callers |-> IdleProgress]

TaskOf(r) == CHOOSE t \in tasks : t.id = h[r].taskId

(* the store rejects the call the request is waiting on *)
Rejects == faults < MaxFaults /\ faults' = faults + 1

(* the outer catch of the handler: 400 "Failed to submit code" *)
OuterCatch(r) ==
  /\ h' = [h EXCEPT ![r].pc = "done"]
  /\ response' = [response EXCEPT ![r] = Message(400, "Failed to submit code", "")]

(* line 407-416: intake up to the first await *)
Submit(r) ==
  /\ h[r].pc = "idle"
  /\ \E userId \in Users, taskId \in RequestTaskIds, body \in Bodies :
       IF body.code = ""
       THEN /\ h' = [h EXCEPT ![r] = [@ EXCEPT !.pc = "done", !.userId = userId,
                                         !.taskId = taskId, !.body = body]]
            /\ response' = [response EXCEPT
                              ![r] = Message(400, "Failed to submit code", "")]
       ELSE /\ h' = [h EXCEPT ![r] = [@ EXCEPT !.pc = "isTaskUnlocked",
                                         !.userId = userId, !.taskId = taskId,
                                         !.body = body]]
            /\ UNCHANGED response
  /\ UNCHANGED <<submissions, userProgress, userAchievements, xp, faults,
                 credited, jvars, svars>>

(* the 403 branch without its return *)
CheckUnlocked_NoReturn(r) ==
  /\ h[r].pc = "isTaskUnlocked"
  /\ \/ /\ Rejects
        /\ OuterCatch(r)
     \/ /\ UNCHANGED faults
        /\ IF isTaskUnlocked(userProgress, h[r].userId, h[r].taskId) = "throws"
           THEN OuterCatch(r)
           ELSE IF isTaskUnlocked(userProgress, h[r].userId, h[r].taskId) = "false"
           THEN /\ h' = [h EXCEPT ![r].pc = "createSubmission"]
                /\ response' = [response EXCEPT
                                  ![r] = Message(403, "Task is locked", "")]
           ELSE IF getTask(h[r].taskId) = {}
           THEN /\ h' = [h EXCEPT ![r].pc = "done"]
                /\ response' = [response EXCEPT
                                  ![r] = Message(404, "Task not found", "")]
           ELSE /\ h' = [h EXCEPT ![r].pc = "createSubmission"]
                /\ UNCHANGED response
  /\ UNCHANGED <<submissions, userProgress, userAchievements, xp, credited,
                 jvars, svars>>

(* line 418-430: isTaskUnlocked, getTask, getTestCasesByTask *)
CheckUnlocked(r) ==
  /\ h[r].pc = "isTaskUnlocked"
  /\ \/ /\ Rejects
        /\ OuterCatch(r)
     \/ /\ UNCHANGED faults
        /\ IF isTaskUnlocked(userProgress, h[r].userId, h[r].taskId) = "throws"
           THEN OuterCatch(r)
           ELSE IF isTaskUnlocked(userProgress, h[r].userId, h[r].taskId) = "false"
           THEN /\ h' = [h EXCEPT ![r].pc = "done"]
                /\ response' = [response EXCEPT
                                  ![r] = Message(403, "Task is locked", "")]
           ELSE IF getTask(h[r].taskId) = {}
           THEN /\ h' = [h EXCEPT ![r].pc = "done"]
                /\ response' = [response EXCEPT
                                  ![r] = Message(404, "Task not found", "")]
           ELSE /\ h' = [h EXCEPT ![r].pc = "createSubmission"]
                /\ UNCHANGED response
  /\ UNCHANGED <<submissions, userProgress, userAchievements, xp, credited,
                 jvars, svars>>

(* line 433: storage.createSubmission(submissionData) *)
CreateSubmission(r) ==
  /\ h[r].pc = "createSubmission"
  /\ \/ /\ Rejects
        /\ OuterCatch(r)
        /\ UNCHANGED submissions
     \/ /\ UNCHANGED <<faults, response>>
        /\ submissions' =
             [submissions EXCEPT
                ![r] = [present |-> TRUE, userId |-> h[r].userId,
                        taskId |-> h[r].taskId, status |-> h[r].body.status,
                        testCasesPassed |-> h[r].body.testCasesPassed,
                        totalTestCases |-> h[r].body.totalTestCases]]
        /\ h' = [h EXCEPT ![r].pc = "executeWithTestCases"]
  /\ UNCHANGED <<userProgress, userAchievements, xp, credited, jvars, svars>>

(* line 437-451: judge0Service.executeWithTestCases resolves *)
Evaluate(r) ==
  /\ h[r].pc = "executeWithTestCases"
  /\ LET rows == getTestCasesByTask(h[r].taskId)
         testCaseData == [i \in 1..Len(rows) |->
                            [input |-> rows[i].input,
                             expectedOutput |-> rows[i].expectedOutput]]
     IN \E outs \in [1..Len(rows) -> HandlerOutcomes] :
          LET res == executeWithTestCases(testCaseData, outs)
              status == IF res.totalPassed = res.totalTests
                        THEN "accepted" ELSE "wrong_answer"
          IN h' = [h EXCEPT ![r] = [@ EXCEPT !.pc = "updateSubmission",
                                       !.ret = res, !.status = status]]
  /\ UNCHANGED <<submissions, userProgress, userAchievements, xp, response,
                 faults, credited, jvars, svars>>

(* line 468-473: res.json of the evaluated submission *)
Respond(r) ==
  response' =
    [response EXCEPT
       ![r] = [http |-> 200, message |-> "", error |-> "",
               submission |-> [present |-> TRUE, userId |-> h[r].userId,
                               taskId |-> h[r].taskId,
                               status |-> h[r].status,
                               testCasesPassed |-> h[r].ret.totalPassed,
                               totalTestCases |-> h[r].body.totalTestCases],
               results |-> h[r].ret.results,
               totalPassed |-> h[r].ret.totalPassed,
               totalTests |-> h[r].ret.totalTests]]

(* the store rejected a call inside the inner try: control is in the      *)
(* catch (judgeError) block                                               *)
ToCatch(r) ==
  h' = [h EXCEPT ![r] = [@ EXCEPT !.pc = "catch", !.error = StoreError]]

(* res.json is called before the side effects are awaited *)
UpdateSubmission_RespondFirst(r) ==
  /\ h[r].pc = "updateSubmission"
  /\ \/ /\ Rejects
        /\ ToCatch(r)
        /\ UNCHANGED <<submissions, response>>
     \/ /\ UNCHANGED faults
        /\ submissions' =
             [submissions EXCEPT
                ![r] = [@ EXCEPT !.status = h[r].status,
                                 !.testCasesPassed = h[r].ret.totalPassed,
                                 !.totalTestCases = h[r].ret.totalTests]]
        /\ Respond(r)
        /\ IF h[r].status = "accepted"
           THEN h' = [h EXCEPT ![r].pc = "updateProgress.select"]
           ELSE h' = [h EXCEPT ![r].pc = "done"]
  /\ UNCHANGED <<userProgress, userAchievements, xp, credited, jvars, svars>>

(* the side effects run without the if (status === 'accepted') *)
UpdateSubmission_AlwaysProgress(r) ==
  /\ h[r].pc = "updateSubmission"
  /\ \/ /\ Rejects
        /\ ToCatch(r)
        /\ UNCHANGED <<submissions, response>>
     \/ /\ UNCHANGED faults
        /\ submissions' =
             [submissions EXCEPT
                ![r] = [@ EXCEPT !.status = h[r].status,
                                 !.testCasesPassed = h[r].ret.totalPassed,
                                 !.totalTestCases = h[r].ret.totalTests]]
        /\ h' = [h EXCEPT ![r].pc = "updateProgress.select"]
        /\ UNCHANGED response
  /\ UNCHANGED <<userProgress, userAchievements, xp, credited, jvars, svars>>

(* line 453-457: storage.updateSubmission with the verdict *)
UpdateSubmission(r) ==
  /\ h[r].pc = "updateSubmission"
  /\ \/ /\ Rejects
        /\ ToCatch(r)
        /\ UNCHANGED <<submissions, response>>
     \/ /\ UNCHANGED faults
        /\ submissions' =
             [submissions EXCEPT
                ![r] = [@ EXCEPT !.status = h[r].status,
                                 !.testCasesPassed = h[r].ret.totalPassed,
                                 !.totalTestCases = h[r].ret.totalTests]]
        /\ IF h[r].status = "accepted"
           THEN /\ h' = [h EXCEPT ![r].pc = "updateProgress.select"]
                /\ UNCHANGED response
           ELSE /\ h' = [h EXCEPT ![r].pc = "done"]
                /\ Respond(r)
  /\ UNCHANGED <<userProgress, userAchievements, xp, credited, jvars, svars>>

(* the catch block answers without writing the status *)
Catch_NoUpdate(r) ==
  /\ h[r].pc = "catch"
  /\ \/ /\ Rejects
        /\ OuterCatch(r)
        /\ UNCHANGED submissions
     \/ /\ UNCHANGED <<faults, submissions>>
        /\ h' = [h EXCEPT ![r].pc = "done"]
        /\ response' = [response EXCEPT
                          ![r] = Message(400, "Code execution failed", h[r].error)]
  /\ UNCHANGED <<userProgress, userAchievements, xp, credited, jvars, svars>>

(* line 475-485: the catch (judgeError) block *)
Catch(r) ==
  /\ h[r].pc = "catch"
  /\ \/ /\ Rejects
        /\ OuterCatch(r)
        /\ UNCHANGED submissions
     \/ /\ UNCHANGED faults
        /\ submissions' = [submissions EXCEPT ![r].status = "compilation_error"]
        /\ h' = [h EXCEPT ![r].pc = "done"]
        /\ response' = [response EXCEPT
                          ![r] = Message(400, "Code execution failed", h[r].error)]
  /\ UNCHANGED <<userProgress, userAchievements, xp, credited, jvars, svars>>

(* storage.updateProgress, line 316-331: select the existing row *)
UpdateProgressSelect(r) ==
  /\ h[r].pc = "updateProgress.select"
  /\ \/ /\ Rejects
        /\ ToCatch(r)
     \/ /\ UNCHANGED faults
        /\ LET courseId == TaskOf(r).moduleId
               moduleId == TaskOf(r).moduleId
               found == {i \in 1..Len(userProgress) :
                           /\ userProgress[i].userId = h[r].userId
                           /\ userProgress[i].courseId = courseId
                           /\ userProgress[i].moduleId = moduleId
                           /\ userProgress[i].taskId = h[r].taskId}
           IN \E e \in (IF found = {} THEN {0} ELSE found) :
                h' = [h EXCEPT ![r] = [@ EXCEPT !.pc = "updateProgress.write",
                                          !.existing = e]]
  /\ UNCHANGED <<submissions, userProgress, userAchievements, xp, response,
                 credited, jvars, svars>>

(* task.xpReward passed on without the || 50 *)
UpdateProgressWrite_NoDefault(r) ==
  /\ h[r].pc = "updateProgress.write"
  /\ \/ /\ Rejects
        /\ ToCatch(r)
        /\ UNCHANGED userProgress
     \/ /\ UNCHANGED faults
        /\ userProgress' =
             IF h[r].existing > 0
             THEN [userProgress EXCEPT ![h[r].existing].isCompleted = TRUE]
             ELSE Append(userProgress,
                         [userId |-> h[r].userId,
                          courseId |-> TaskOf(r).moduleId,
                          moduleId |-> TaskOf(r).moduleId,
                          taskId |-> h[r].taskId,
                          isCompleted |-> TRUE])
        /\ h' = [h EXCEPT ![r] =
                   [@ EXCEPT !.pc = "updateUserXP.read",
                             !.amount = TaskOf(r).xpReward,
                             !.reason = "task"]]
  /\ UNCHANGED <<submissions, userAchievements, xp, response, credited, jvars, svars>>

(* storage.updateProgress, line 333-339: update that row or insert one;   *)
(* then line 462 up to the first await of updateUserXP                    *)
UpdateProgressWrite(r) ==
  /\ h[r].pc = "updateProgress.write"
  /\ \/ /\ Rejects
        /\ ToCatch(r)
        /\ UNCHANGED userProgress
     \/ /\ UNCHANGED faults
        /\ userProgress' =
             IF h[r].existing > 0
             THEN [userProgress EXCEPT ![h[r].existing].isCompleted = TRUE]
             ELSE Append(userProgress,
                         [userId |-> h[r].userId,
                          courseId |-> TaskOf(r).moduleId,
                          moduleId |-> TaskOf(r).moduleId,
                          taskId |-> h[r].taskId,
                          isCompleted |-> TRUE])
        /\ h' = [h EXCEPT ![r] =
                   [@ EXCEPT !.pc = "updateUserXP.read",
                             !.amount = IF TaskOf(r).xpReward # 0
                                        THEN TaskOf(r).xpReward ELSE 50,
                             !.reason = "task"]]
  /\ UNCHANGED <<submissions, userAchievements, xp, response, credited, jvars, svars>>

(* the milestone loop of checkTaskCompletionAchievements moves on from    *)
(* position loc.k to the next await, or the handler responds              *)
ContinueLoop(r, loc) ==
  LET k2 == NextMilestone(loc.achievements, loc.completedTasks, loc.k)
  IN IF k2 = 0
     THEN /\ h' = [h EXCEPT ![r] = [loc EXCEPT !.pc = "done", !.k = 0,
                                               !.achievements = <<>>]]
          /\ Respond(r)
     ELSE /\ h' = [h EXCEPT ![r] = [loc EXCEPT !.pc = "unlockAchievement.select",
                                               !.k = k2]]
          /\ UNCHANGED response

(* a store call of updateUserXP was rejected: the catch (judgeError)      *)
(* block for the task reward, the empty catch of line 604 otherwise       *)
XPRejected(r) ==
  /\ Rejects
  /\ IF h[r].reason = "task"
     THEN ToCatch(r) /\ UNCHANGED response
     ELSE ContinueLoop(r, h[r])

(* getUser catches the error of its select and returns null, and         *)
(* updateUserXP does nothing for a null user: the call resolves without   *)
(* a credit                                                               *)
UserNotRead(r) ==
  /\ Rejects
  /\ IF h[r].reason = "task"
     THEN /\ h' = [h EXCEPT ![r].pc = "checkTaskCompletionAchievements"]
          /\ UNCHANGED response
     ELSE ContinueLoop(r, h[r])

(* storage.updateUserXP, line 161: getUser *)
UpdateUserXPRead(r) ==
  /\ h[r].pc = "updateUserXP.read"
  /\ \/ UserNotRead(r)
     \/ /\ UNCHANGED <<faults, response>>
        /\ h' = [h EXCEPT ![r] = [@ EXCEPT !.pc = "updateUserXP.write",
                                     !.currentXp = xp[h[r].userId]]]
  /\ UNCHANGED <<submissions, userProgress, userAchievements, xp, credited,
                 jvars, svars>>

(* storage.updateUserXP, line 163-168: update users set xp *)
UpdateUserXPWrite(r) ==
  /\ h[r].pc = "updateUserXP.write"
  /\ \/ /\ XPRejected(r)
        /\ UNCHANGED <<xp, credited>>
     \/ /\ UNCHANGED faults
        /\ xp' = [xp EXCEPT ![h[r].userId] = h[r].currentXp + h[r].amount]
        /\ credited' = [credited EXCEPT ![h[r].reason] = @ + h[r].amount]
        /\ IF h[r].reason = "task"
           THEN /\ h' = [h EXCEPT ![r].pc = "checkTaskCompletionAchievements"]
                /\ UNCHANGED response
           ELSE ContinueLoop(r, h[r])
  /\ UNCHANGED <<submissions, userProgress, userAchievements, jvars, svars>>

(* checkTaskCompletionAchievements, line 584-592: getUserProgress,        *)
(* getAchievements, and the loop up to its first await                    *)
CheckTaskCompletionAchievements(r) ==
  /\ h[r].pc = "checkTaskCompletionAchievements"
  /\ \/ /\ Rejects
        /\ ToCatch(r)
        /\ UNCHANGED response
     \/ /\ UNCHANGED faults
        /\ LET completedTasks ==
                 Cardinality({i \in 1..Len(userProgress) :
                                /\ userProgress[i].userId = h[r].userId
                                /\ userProgress[i].taskId # ""
                                /\ userProgress[i].isCompleted})
           IN \E achievements \in Orderings(AchievementRows) :
                ContinueLoop(r, [h[r] EXCEPT !.achievements = achievements,
                                             !.completedTasks = completedTasks,
                                             !.k = 0])
  /\ UNCHANGED <<submissions, userProgress, userAchievements, xp, credited,
                 jvars, svars>>

(* the achievement the loop is granting *)
Granting(loc) ==
  loc.achievements[findAchievement(loc.achievements, milestones[loc.k])]

(* line 601-603 after unlockAchievement resolved *)
AfterUnlock(r) ==
  IF Granting(h[r]).xpReward # 0
  THEN /\ h' = [h EXCEPT ![r] = [@ EXCEPT !.pc = "updateUserXP.read",
                                    !.amount = Granting(h[r]).xpReward,
                                    !.reason = Granting(h[r]).id]]
       /\ UNCHANGED response
  ELSE ContinueLoop(r, h[r])

(* storage.unlockAchievement, line 383-389: select the existing row *)
UnlockAchievementSelect(r) ==
  /\ h[r].pc = "unlockAchievement.select"
  /\ \/ /\ Rejects
        /\ ContinueLoop(r, h[r])
     \/ /\ UNCHANGED faults
        /\ IF \E i \in 1..Len(userAchievements) :
                /\ userAchievements[i].userId = h[r].userId
                /\ userAchievements[i].achievementId = Granting(h[r]).id
           THEN AfterUnlock(r)
           ELSE /\ h' = [h EXCEPT ![r].pc = "unlockAchievement.insert"]
                /\ UNCHANGED response
  /\ UNCHANGED <<submissions, userProgress, userAchievements, xp, credited,
                 jvars, svars>>

(* storage.unlockAchievement, line 391-396: insert the row *)
UnlockAchievementInsert(r) ==
  /\ h[r].pc = "unlockAchievement.insert"
  /\ \/ /\ Rejects
        /\ ContinueLoop(r, h[r])
        /\ UNCHANGED userAchievements
     \/ /\ UNCHANGED faults
        /\ userAchievements' =
             Append(userAchievements,
                    [userId |-> h[r].userId,
                     achievementId |-> Granting(h[r]).id])
        /\ AfterUnlock(r)
  /\ UNCHANGED <<submissions, userProgress, xp, credited, jvars, svars>>

HandlerInit ==
  /\ HandlerIdle
  /\ StoreIdle
  /\ language = "java"
  /\ testCases = <<>>
  /\ pc = "idle"
  /\ idx = 0
  /\ attempts = 0
  /\ result = NoResult
  /\ results = <<>>
  /\ totalPassed = 0
  /\ ret = NoReturn
  /\ execOut = NoOutcome
  /\ calls = 0
  /\ netSubmits = 0
  /\ netPolls = 0

HandlerNext ==
  \E r \in Requests :
    \/ Submit(r)
    \/ CheckUnlocked(r)
    \/ CreateSubmission(r)
    \/ Evaluate(r)
    \/ UpdateSubmission(r)
    \/ UpdateProgressSelect(r)
    \/ UpdateProgressWrite(r)
    \/ UpdateUserXPRead(r)
    \/ UpdateUserXPWrite(r)
    \/ CheckTaskCompletionAchievements(r)
    \/ UnlockAchievementSelect(r)
    \/ UnlockAchievementInsert(r)
    \/ Catch(r)

Spec == HandlerInit /\ [][HandlerNext]_vars

JudgeInit ==
  /\ language \in Languages
  /\ testCases \in TestCaseLists
  /\ pc = "for"
  /\ idx = 0
  /\ attempts = 0
  /\ result = NoResult
  /\ results = <<>>
  /\ totalPassed = 0
  /\ ret = NoReturn
  /\ execOut = NoOutcome
  /\ calls = 0
  /\ netSubmits = 0
  /\ netPolls = 0
  /\ HandlerIdle
  /\ StoreIdle

JudgeNext == ForOf \/ SubmitCode \/ GetSubmissionResult \/ SetTimeout

SpecJudge == JudgeInit /\ [][JudgeNext]_vars

CompareInit ==
  /\ language = "java"
  /\ \E e \in Strs : testCases = <<[input |-> "x", expectedOutput |-> e]>>
  /\ pc = "compare"
  /\ idx = 1
  /\ attempts = 0
  /\ \E st \in StatusIds \ {1, 2}, o \in {NullStr} \cup {Str(t) : t \in Strs} :
       /\ result = [status |-> st, stdout |-> o]
       /\ execOut = Returned([status |-> st, stdout |-> o])
  /\ results = <<>>
  /\ totalPassed = 0
  /\ ret = NoReturn
  /\ calls = 1
  /\ netSubmits = 1
  /\ netPolls = 1
  /\ HandlerIdle
  /\ StoreIdle

SpecCompare == CompareInit /\ [][CompareCase]_vars

(* ------------------------- certificate service ------------------------ *)
getCourse(id) == {c \in CourseRows : c.id = id}

getModulesByCourse(courseId) == {m \in ModuleRows : m.courseId = courseId}

getUserCourseProgress(userId, courseId) ==
  {i \in 1..Len(userProgress) :
     /\ userProgress[i].userId = userId
     /\ userProgress[i].courseId = courseId}

(* achievements.filter(...) of checkCourseCompletionAchievements *)
levelAchievements(achievements, courseLevel) ==
  SelectSeq(achievements,
            LAMBDA a : \/ includes(toLowerCase(a.name), toLowerCase(courseLevel))
                       \/ includes(toLowerCase(a.name),
                                   <<"c", "o", "m", "p", "l", "e", "t", "i",
                                     "o", "n">>))

(* generateCertificate throws: the route answers 400 with the message *)
CertThrow(c, m) ==
  g' = [g EXCEPT ![c] = [@ EXCEPT !.pc = "done", !.http = 400, !.message = m]]

(* the for-of loop of checkCourseCompletionAchievements moves on to the   *)
(* next achievement, or generateCertificate returns and the route answers *)
CertContinue(c, loc) ==
  IF loc.k >= Len(loc.levelAchievements)
  THEN g' = [g EXCEPT ![c] = [loc EXCEPT !.pc = "done", !.http = 200,
                                         !.levelAchievements = <<>>, !.k = 0]]
  ELSE g' = [g EXCEPT ![c] = [loc EXCEPT !.pc = "unlockAchievement.select",
                                         !.k = loc.k + 1]]

(* what the certificate service leaves alone *)
CertFrame ==
  UNCHANGED <<tasks, call, up, h, submissions, userProgress, response, jvars>>

(* POST /api/certificates/generate/:courseId up to the first await *)
GenerateCertificate(c) ==
  /\ g[c].pc = "idle"
  /\ \E userId \in Users, courseId \in RequestCourseIds :
       g' = [g EXCEPT ![c] = [@ EXCEPT !.pc = "getUserCourseProgress",
                                       !.userId = userId,
                                       !.courseId = courseId]]
  /\ UNCHANGED <<certificates, xp, credited, userAchievements, faults>>
  /\ CertFrame

(* line 6-23: the reads and the two checks *)
CheckCompleted(c) ==
  /\ g[c].pc = "getUserCourseProgress"
  /\ \/ /\ Rejects
        /\ \/ CertThrow(c, StoreError)
           \/ CertThrow(c, "Course or user not found")
     \/ /\ UNCHANGED faults
        /\ IF getCourse(g[c].courseId) = {}
           THEN CertThrow(c, "Course or user not found")
           ELSE LET courseProgress ==
                      getUserCourseProgress(g[c].userId, g[c].courseId)
                    completedModules ==
                      {i \in courseProgress :
                         /\ userProgress[i].moduleId # ""
                         /\ userProgress[i].isCompleted}
                    requiredModules ==
                      Cardinality(getModulesByCourse(g[c].courseId))
                IN IF Cardinality(completedModules) < requiredModules
                   THEN CertThrow(c, "Course not completed yet")
                   ELSE g' = [g EXCEPT ![c].pc = "createCertificate"]
  /\ UNCHANGED <<certificates, xp, credited, userAchievements>>
  /\ CertFrame

(* storage.createCertificate: the insert; then line 29 up to getUser *)
CreateCertificate(c) ==
  /\ g[c].pc = "createCertificate"
  /\ \/ /\ Rejects
        /\ CertThrow(c, StoreError)
        /\ UNCHANGED certificates
     \/ /\ UNCHANGED faults
        /\ certificates' =
             Append(certificates,
                    [userId |-> g[c].userId, courseId |-> g[c].courseId,
                     certificateNumber |-> Len(certificates) + 1])
        /\ LET course == CHOOSE x \in getCourse(g[c].courseId) : TRUE
           IN g' = [g EXCEPT ![c] =
                      [@ EXCEPT !.pc = "updateUserXP.read",
                                !.certificateNumber = Len(certificates) + 1,
                                !.amount = IF course.xpReward # 0
                                           THEN course.xpReward ELSE 500,
                                !.reason = "course"]]
  /\ UNCHANGED <<xp, credited, userAchievements>>
  /\ CertFrame

(* updateUserXP resolved or was skipped: on to getAchievements, or on in  *)
(* the loop                                                               *)
CertAfterXP(c) ==
  IF g[c].reason = "course"
  THEN g' = [g EXCEPT ![c].pc = "checkCourseCompletionAchievements"]
  ELSE CertContinue(c, g[c])

(* storage.updateUserXP, line 161: getUser *)
CertUpdateUserXPRead(c) ==
  /\ g[c].pc = "updateUserXP.read"
  /\ \/ /\ Rejects
        /\ CertAfterXP(c)
     \/ /\ UNCHANGED faults
        /\ g' = [g EXCEPT ![c] = [@ EXCEPT !.pc = "updateUserXP.write",
                                           !.currentXp = xp[g[c].userId]]]
  /\ UNCHANGED <<certificates, xp, credited, userAchievements>>
  /\ CertFrame

(* storage.updateUserXP, line 163-168: update users set xp *)
CertUpdateUserXPWrite(c) ==
  /\ g[c].pc = "updateUserXP.write"
  /\ \/ /\ Rejects
        /\ IF g[c].reason = "course"
           THEN CertThrow(c, StoreError)
           ELSE CertContinue(c, g[c])
        /\ UNCHANGED <<xp, credited>>
     \/ /\ UNCHANGED faults
        /\ xp' = [xp EXCEPT ![g[c].userId] = g[c].currentXp + g[c].amount]
        /\ credited' = [credited EXCEPT ![g[c].reason] = @ + g[c].amount]
        /\ CertAfterXP(c)
  /\ UNCHANGED <<certificates, userAchievements>>
  /\ CertFrame

(* checkCourseCompletionAchievements, line 38-46: getAchievements, the    *)
(* filter, and the loop up to its first await                             *)
CheckCourseCompletionAchievements(c) ==
  /\ g[c].pc = "checkCourseCompletionAchievements"
  /\ \/ /\ Rejects
        /\ CertThrow(c, StoreError)
     \/ /\ UNCHANGED faults
        /\ LET course == CHOOSE x \in getCourse(g[c].courseId) : TRUE
           IN \E achievements \in Orderings(AchievementRows) :
                CertContinue(c, [g[c] EXCEPT
                                   !.levelAchievements =
                                      levelAchievements(achievements,
                                                        course.level),
                                   !.k = 0])
  /\ UNCHANGED <<certificates, xp, credited, userAchievements>>
  /\ CertFrame

(* line 48-53 after unlockAchievement resolved *)
CertAfterUnlock(c) ==
  LET achievement == g[c].levelAchievements[g[c].k]
  IN IF achievement.xpReward # 0
     THEN g' = [g EXCEPT ![c] = [@ EXCEPT !.pc = "updateUserXP.read",
                                         !.amount = achievement.xpReward,
                                         !.reason = achievement.id]]
     ELSE CertContinue(c, g[c])

(* storage.unlockAchievement, line 383-389: select the existing row *)
CertUnlockAchievementSelect(c) ==
  /\ g[c].pc = "unlockAchievement.select"
  /\ \/ /\ Rejects
        /\ CertContinue(c, g[c])
     \/ /\ UNCHANGED faults
        /\ IF \E i \in 1..Len(userAchievements) :
                /\ userAchievements[i].userId = g[c].userId
                /\ userAchievements[i].achievementId
                     = g[c].levelAchievements[g[c].k].id
           THEN CertAfterUnlock(c)
           ELSE g' = [g EXCEPT ![c].pc = "unlockAchievement.insert"]
  /\ UNCHANGED <<certificates, xp, credited, userAchievements>>
  /\ CertFrame

(* storage.unlockAchievement, line 391-396: insert the row *)
CertUnlockAchievementInsert(c) ==
  /\ g[c].pc = "unlockAchievement.insert"
  /\ \/ /\ Rejects
        /\ CertContinue(c, g[c])
        /\ UNCHANGED userAchievements
     \/ /\ UNCHANGED faults
        /\ userAchievements' =
             Append(userAchievements,
                    [userId |-> g[c].userId,
                     achievementId |-> g[c].levelAchievements[g[c].k].id])
        /\ CertAfterUnlock(c)
  /\ UNCHANGED <<certificates, xp, credited>>
  /\ CertFrame

(* user_progress as generateCertificate can find it: nothing, or the     *)
(* module of course c1 completed by the user                             *)
CourseProgressTables ==
  {<<>>,
   <<[userId |-> "u1", courseId |-> "c1", moduleId |-> "m1", taskId |-> "",
      isCompleted |-> TRUE]>>}

CertInit ==
  /\ userProgress \in CourseProgressTables
  /\ tasks = TaskRows
  /\ call = NoCall
  /\ certificates = <<>>
  /\ g = [c \in Callers |-> IdleCall]
  /\ up = [c \in Callers |-> IdleProgress]
  /\ h = [r \in Requests |-> IdleLocals]
  /\ submissions = [r \in Requests |-> NoRow]
  /\ userAchievements = <<>>
  /\ xp = [u \in Users |-> 0]
  /\ response = [r \in Requests |-> NoResponse]
  /\ faults = 0
  /\ credited = NoCredits
  /\ language = "java"
  /\ testCases = <<>>
  /\ pc = "idle"
  /\ idx = 0
  /\ attempts = 0
  /\ result = NoResult
  /\ results = <<>>
  /\ totalPassed = 0
  /\ ret = NoReturn
  /\ execOut = NoOutcome
  /\ calls = 0
  /\ netSubmits = 0
  /\ netPolls = 0

CertNext ==
  \E c \in Callers :
    \/ GenerateCertificate(c)
    \/ CheckCompleted(c)
    \/ CreateCertificate(c)
    \/ CertUpdateUserXPRead(c)
    \/ CertUpdateUserXPWrite(c)
    \/ CheckCourseCompletionAchievements(c)
    \/ CertUnlockAchievementSelect(c)
    \/ CertUnlockAchievementInsert(c)

SpecCert == CertInit /\ [][CertNext]_vars

(* ------------------- isTaskUnlocked, called on its own ------------------ *)
(* tasks tables: each of three tasks absent or present, in either module, *)
(* active or not; the order column does not follow the ids                *)
TaskChoices(id, order) ==
  {{}} \cup {{[id |-> id, moduleId |-> m, xpReward |-> 10, order |-> order,
               isActive |-> a]} : m \in {"m1", "m2"}, a \in BOOLEAN}

TaskTables ==
  {a \cup b \cup c : a \in TaskChoices("t1", 2), b \in TaskChoices("t2", 1),
                     c \in TaskChoices("t3", 3)}

(* user_progress rows about one task: none, completed or not by the      *)
(* caller, completed by another user                                     *)
ProgressChoices(taskId) ==
  {<<>>} \cup {<<[userId |-> u[1], courseId |-> "m1", moduleId |-> "m1",
                  taskId |-> taskId, isCompleted |-> u[2]]>> :
                u \in {<<"u1", TRUE>>, <<"u1", FALSE>>, <<"u2", TRUE>>}}

ProgressTables ==
  {a \o b \o c : a \in ProgressChoices("t1"), b \in ProgressChoices("t2"),
                 c \in ProgressChoices("t3")}

(* storage.isTaskUnlocked(userId, taskId) settles *)
IsTaskUnlockedCall ==
  /\ call.result = "none"
  /\ call.taskId # ""
  /\ call' = [call EXCEPT
               !.result = isTaskUnlocked(userProgress, call.userId, call.taskId)]
  /\ UNCHANGED <<tasks, certificates, g, up, jvars, hvars>>

UnlockInit ==
  /\ tasks \in TaskTables
  /\ certificates = <<>>
  /\ g = [c \in Callers |-> IdleCall]
  /\ up = [c \in Callers |-> IdleProgress]
  /\ userProgress \in ProgressTables
  /\ \E taskId \in RequestTaskIds :
       call = [userId |-> "u1", taskId |-> taskId, result |-> "none"]
  /\ h = [r \in Requests |-> IdleLocals]
  /\ submissions = [r \in Requests |-> NoRow]
  /\ userAchievements = <<>>
  /\ xp = [u \in Users |-> 0]
  /\ response = [r \in Requests |-> NoResponse]
  /\ faults = 0
  /\ credited = NoCredits
  /\ language = "java"
  /\ testCases = <<>>
  /\ pc = "idle"
  /\ idx = 0
  /\ attempts = 0
  /\ result = NoResult
  /\ results = <<>>
  /\ totalPassed = 0
  /\ ret = NoReturn
  /\ execOut = NoOutcome
  /\ calls = 0
  /\ netSubmits = 0
  /\ netPolls = 0

SpecUnlock == UnlockInit /\ [][IsTaskUnlockedCall]_vars

(* ------------------- updateProgress, called on its own ----------------- *)
(* rows the table is let grow to *)
MaxRows == 3

(* optional arguments as a caller can pass them: "" is the unset argument *)
ModuleArgs == {""} \cup {m.id : m \in ModuleRows}

TaskArgs == {""} \cup {t.id : t \in {q \in TaskRows : q.isActive}}

(* and(...conditions), line 316-326: module_id and task_id are compared   *)
(* only when the argument is truthy                                       *)
conditions(row, userId, courseId, moduleId, taskId) ==
  /\ row.userId = userId
  /\ row.courseId = courseId
  /\ moduleId # "" => row.moduleId = moduleId
  /\ taskId # "" => row.taskId = taskId

(* rows the select of line 328-331 can deliver before limit(1) *)
Existing(loc) ==
  {i \in 1..Len(userProgress) :
     conditions(userProgress[i], loc.userId, loc.courseId, loc.moduleId,
                loc.taskId)}

(* storage.updateProgress(userId, courseId, moduleId?, taskId?) is called *)
UpdateProgressCall(c) ==
  /\ up[c].pc = "idle"
  /\ Len(userProgress) < MaxRows
  /\ \E userId \in Users, courseId \in {k.id : k \in CourseRows},
        moduleId \in ModuleArgs, taskId \in TaskArgs :
       up' = [up EXCEPT ![c] = [pc |-> "select", userId |-> userId,
                              courseId |-> courseId, moduleId |-> moduleId,
                              taskId |-> taskId, existing |-> 0]]
  /\ UNCHANGED <<userProgress, faults>>
  /\ UNCHANGED <<tasks, call, certificates, g, h, submissions,
                 userAchievements, xp, response, credited, jvars>>

(* line 328-331: select ... limit(1); without orderBy any matching row    *)
(* can be the one delivered                                               *)
UpdateProgressExisting(c) ==
  /\ up[c].pc = "select"
  /\ \/ /\ Rejects
        /\ up' = [up EXCEPT ![c] = IdleProgress]
     \/ /\ UNCHANGED faults
        /\ IF Existing(up[c]) = {}
           THEN up' = [up EXCEPT ![c] = [@ EXCEPT !.pc = "write", !.existing = 0]]
           ELSE \E i \in Existing(up[c]) :
                  up' = [up EXCEPT ![c] = [@ EXCEPT !.pc = "write",
                                                  !.existing = i]]
  /\ UNCHANGED userProgress
  /\ UNCHANGED <<tasks, call, certificates, g, h, submissions,
                 userAchievements, xp, response, credited, jvars>>

(* line 333-339: update of the delivered row, or insert of progressData *)
UpdateProgressStore(c) ==
  /\ up[c].pc = "write"
  /\ \/ /\ Rejects
        /\ UNCHANGED userProgress
     \/ /\ UNCHANGED faults
        /\ userProgress' =
             IF up[c].existing > 0
             THEN [userProgress EXCEPT ![up[c].existing].isCompleted = TRUE]
             ELSE Append(userProgress,
                         [userId |-> up[c].userId,
                          courseId |-> up[c].courseId,
                          moduleId |-> up[c].moduleId,
                          taskId |-> up[c].taskId,
                          isCompleted |-> TRUE])
  /\ up' = [up EXCEPT ![c] = IdleProgress]
  /\ UNCHANGED <<tasks, call, certificates, g, h, submissions,
                 userAchievements, xp, response, credited, jvars>>

ProgressInit ==
  /\ HandlerIdle
  /\ StoreIdle
  /\ language = "java"
  /\ testCases = <<>>
  /\ pc = "idle"
  /\ idx = 0
  /\ attempts = 0
  /\ result = NoResult
  /\ results = <<>>
  /\ totalPassed = 0
  /\ ret = NoReturn
  /\ execOut = NoOutcome
  /\ calls = 0
  /\ netSubmits = 0
  /\ netPolls = 0

ProgressNext ==
  \E c \in Callers :
    \/ UpdateProgressCall(c)
    \/ UpdateProgressExisting(c)
    \/ UpdateProgressStore(c)

SpecProgress == ProgressInit /\ [][ProgressNext]_vars

(* ============================== claims ================================= *)

TerminalStatuses == {"accepted", "wrong_answer", "compilation_error"}

C1_Final(r) ==
  (h[r].body.status = "" /\ submissions[r].status \in TerminalStatuses)
    => submissions'[r].status = submissions[r].status

(* C1: once the handler has given a Submission a terminal status, no      *)
(* later step of the request changes that status (requests whose body     *)
(* carries no status of its own).                                         *)
C1_StatusFinal == [][\A r \in Requests : C1_Final(r)]_vars

UnlockRecords(userId, achievementId) ==
  {i \in 1..Len(userAchievements) :
     /\ userAchievements[i].userId = userId
     /\ userAchievements[i].achievementId = achievementId}

(* C2: whenever no request is in progress, every user and achievement     *)
(* have at most one unlock record and the achievement's xpReward has      *)
(* been credited at most once.                                            *)
C2_GrantOnce ==
  (\A r \in Requests : h[r].pc \in {"idle", "done"})
    => \A a \in AchievementRows :
         /\ \A u \in Users : Cardinality(UnlockRecords(u, a.id)) <= 1
         /\ credited[a.id] <= a.xpReward

RECURSIVE SumOver(_, _)
SumOver(f, keys) ==
  IF keys = {} THEN 0
  ELSE LET k == CHOOSE x \in keys : TRUE IN f[k] + SumOver(f, keys \ {k})

(* C3: the user's XP is the initial XP plus the sum of all amounts that   *)
(* completed updateUserXP calls credited; no credit is lost.              *)
C3_NoLostCredit ==
  SumOver(xp, Users) = SumOver(credited, DOMAIN credited)

Evaluated(r) ==
  h[r].ret # NoReturn /\ h[r].pc # "executeWithTestCases"

(* C4: the verdict is 'accepted' exactly when totalPassed = totalTests    *)
(* and totalTests > 0.                                                    *)
C4_AcceptedIff ==
  \A r \in Requests :
    Evaluated(r) =>
      (h[r].status = "accepted"
         <=> (h[r].ret.totalPassed = h[r].ret.totalTests
                /\ h[r].ret.totalTests > 0))

ServiceError == "Judge0 API error: 503 Service Unavailable"

HitServiceError(r) ==
  \E i \in 1..Len(h[r].ret.results) :
    h[r].ret.results[i].status = "Error: " \o ServiceError

(* C5: a request whose evaluation met an execution service error ends     *)
(* with status 'compilation_error' and an error response carrying the     *)
(* error message.                                                         *)
C5_ServiceErrorSurfaced ==
  \A r \in Requests :
    (h[r].pc = "done" /\ HitServiceError(r))
      => (/\ submissions[r].status = "compilation_error"
          /\ response[r].http = 400
          /\ response[r].error = ServiceError)

(* steps an executeCode call can still take before it returns or throws *)
Rank ==
  CASE pc = "submitCode" -> 2 * maxAttempts + 2
    [] pc = "getSubmissionResult" -> 2 * (maxAttempts - attempts) + 1
    [] pc = "setTimeout" -> 2 * (maxAttempts - attempts)
    [] OTHER -> 0

C6_Counts ==
  /\ netSubmits <= 1
  /\ netPolls >= 1 => netSubmits = 1
  /\ netPolls <= 30
  /\ attempts = 30 => execOut = Thrown("Submission timed out")
  /\ execOut.message = "Submission timed out"
       => netPolls = 30 /\ execOut.kind = "thrown"

C6_Progress ==
  pc \in {"submitCode", "getSubmissionResult", "setTimeout"}
    => (Rank' < Rank /\ Rank' >= 0)

(* C6: an executeCode call issues one submit request, at most 30 polls,   *)
(* throws the timeout error after 30 polls that all reported status 1 or  *)
(* 2, and every step of the call brings it strictly nearer to its end.    *)
C6_ExecuteCodeBounded ==
  /\ [](C6_Counts)
  /\ [][C6_Progress]_vars

C6_Witness ==
  /\ execOut = Thrown("Submission timed out")
  /\ netSubmits = 1
  /\ netPolls = 30
  /\ result.status \in {1, 2}

C7_Returned ==
  execOut.kind = "returned"
    => (/\ execOut.result = result
        /\ result.status \notin {1, 2}
        /\ pc \notin {"submitCode", "getSubmissionResult", "setTimeout"})

C7_OnTerminal ==
  (pc = "getSubmissionResult" /\ result'.status \notin {0, 1, 2})
    => (execOut' = Returned(result') /\ netPolls' = netPolls)

C7_NoPollAfter ==
  (execOut.kind # "none" /\ calls' = calls) => netPolls' = netPolls

(* C7: the first poll response with a status other than 1 and 2 is what   *)
(* executeCode returns, no poll follows it, and a response with status 1  *)
(* or 2 is never returned.                                                *)
C7_FirstTerminalReturned ==
  /\ [](C7_Returned)
  /\ [][C7_OnTerminal]_vars
  /\ [][C7_NoPollAfter]_vars

C7_Witness ==
  /\ execOut.kind = "returned"
  /\ execOut.result.status = 4
  /\ netPolls = 3

(* the text between the first and the last non-whitespace character *)
Core(s) ==
  LET ink == {i \in 1..Len(s) : s[i] # " " /\ s[i] # "\n"}
  IN IF ink = {} THEN <<>>
     ELSE SubSeq(s, CHOOSE i \in ink : \A j \in ink : i <= j,
                    CHOOSE i \in ink : \A j \in ink : i >= j)

(* C8: a case is passed exactly when the terminal status id is 3 and the  *)
(* stdout (missing stdout read as empty) and the expected output agree    *)
(* once leading and trailing whitespace is removed from both.             *)
C8_PassedIff ==
  pc = "compared" =>
    (results[1].passed <=>
       /\ execOut.result.status = 3
       /\ Core(IF execOut.result.stdout.isNull THEN <<>>
               ELSE execOut.result.stdout.s)
            = Core(testCases[1].expectedOutput))

C8_Witness ==
  /\ pc = "compared"
  /\ execOut.result.status = 4
  /\ execOut.result.stdout = Str(<<"a", "\n">>)
  /\ testCases[1].expectedOutput = <<" ", "a">>
  /\ ~results[1].passed

C9_Recorded ==
  execOut.kind = "thrown"
    => (/\ Len(results) = idx
        /\ ~results[idx].passed
        /\ results[idx].status = "Error: " \o execOut.message)

C9_AllEvaluated ==
  pc = "return" => (calls = Len(testCases) /\ ret.totalTests = calls)

C9_Continues ==
  (execOut.kind = "thrown" /\ idx < Len(testCases))
    => (calls' = calls + 1 /\ ret' = NoReturn)

(* C9: a failed executeCode call is recorded as a failed case whose       *)
(* status carries the error text, the remaining cases are still           *)
(* evaluated, and executeWithTestCases returns a result.                  *)
C9_ErrorIsolated ==
  /\ [](C9_Recorded)
  /\ [](C9_AllEvaluated)
  /\ [][C9_Continues]_vars

C9_Witness ==
  /\ pc = "return"
  /\ Len(testCases) = 2
  /\ ret.results[1].status = "Error: Submission timed out"
  /\ ret.results[2].passed

(* C10: executeWithTestCases returns one result per test case in input    *)
(* order, totalTests = number of test cases, totalPassed = number of      *)
(* passed results, and 0 <= totalPassed <= totalTests.                    *)
C10_ResultShape ==
  pc = "return" =>
    /\ Len(ret.results) = Len(testCases)
    /\ \A i \in 1..Len(testCases) : ret.results[i].input = testCases[i].input
    /\ ret.totalTests = Len(testCases)
    /\ ret.totalPassed
         = Cardinality({i \in 1..Len(ret.results) : ret.results[i].passed})
    /\ 0 <= ret.totalPassed
    /\ ret.totalPassed <= ret.totalTests

C10_Witness ==
  /\ pc = "return"
  /\ Len(testCases) = 2
  /\ testCases[1].input = "y"
  /\ testCases[2].input = "x"
  /\ ret.totalPassed = 1
  /\ ret.results[2].passed

CasesOfTask(taskId) == {c \in TestCaseRows : c.taskId = taskId}

(* C11: every persisted Submission has testCasesPassed <= totalTestCases,  *)
(* whatever the request body held and whatever status it reached; once a   *)
(* scored evaluation is persisted, totalTestCases is the number of test    *)
(* cases (visible and hidden) of the task.                                 *)
C11_CountsBounded ==
  \A r \in Requests :
    submissions[r].present =>
      /\ submissions[r].testCasesPassed <= submissions[r].totalTestCases
      /\ (h[r].pc = "done" /\ response[r].http = 200)
           => submissions[r].totalTestCases
                = Cardinality(CasesOfTask(submissions[r].taskId))

(* C12: when the handler turns to the execution service, the Submission    *)
(* row exists with testCasesPassed = 0, totalTestCases = 0 and no status,  *)
(* for every payload the validation lets through.                          *)
C12_IntakeRow ==
  \A r \in Requests :
    h[r].pc = "executeWithTestCases" =>
      /\ submissions[r].present
      /\ submissions[r].status = ""
      /\ submissions[r].testCasesPassed = 0
      /\ submissions[r].totalTestCases = 0

C13_LockedStep(r) ==
  (/\ h[r].pc = "isTaskUnlocked"
   /\ h'[r] # h[r]
   /\ faults' = faults
   /\ isTaskUnlocked(userProgress, h[r].userId, h[r].taskId) = "false")
    => (/\ h'[r].pc = "done"
        /\ response'[r].http = 403
        /\ UNCHANGED <<submissions, userProgress, userAchievements, xp,
                       credited>>)

C13_NoTrace(r) ==
  response[r].http = 403
    => (/\ h[r].pc = "done"
        /\ ~submissions[r].present
        /\ h[r].ret = NoReturn
        /\ h[r].amount = 0
        /\ h[r].reason = "")

C13_Over(r) ==
  h[r].pc = "done" => (h'[r] = h[r] /\ submissions'[r] = submissions[r])

(* C13: when the lock check of a submit request finds the task locked,    *)
(* the request ends there with the 403 answer; a request answered 403     *)
(* has created no Submission, has not called the execution service and    *)
(* has not touched XP, progress or achievements, and takes no more steps. *)
C13_LockedNoEffect ==
  /\ [](\A r \in Requests : C13_NoTrace(r))
  /\ [][\A r \in Requests : C13_LockedStep(r)]_vars
  /\ [][\A r \in Requests : C13_Over(r)]_vars

C13_Witness ==
  \E r \in Requests :
    /\ h[r].pc = "done"
    /\ h[r].taskId = "t2"
    /\ response[r] = [NoResponse EXCEPT !.http = 403,
                                        !.message = "Task is locked"]

(* C14: a request that passed validation and names a task with no row is  *)
(* answered 404 (not the 403 of a locked task) and creates no Submission. *)
C14_MissingTaskNotFound ==
  \A r \in Requests :
    (/\ h[r].pc = "done"
     /\ h[r].body.code # ""
     /\ \A t \in tasks : t.id # h[r].taskId
     /\ response[r].message # "Failed to submit code")
      => (response[r].http = 404 /\ ~submissions[r].present)

C16_Phase(loc, resp) ==
  CASE loc.pc \in {"updateProgress.select", "updateProgress.write"} -> 1
    [] loc.pc \in {"updateUserXP.read", "updateUserXP.write"}
         /\ loc.reason = "task" -> 2
    [] loc.pc \in {"updateUserXP.read", "updateUserXP.write"}
         /\ loc.reason # "task" -> 3
    [] loc.pc \in {"checkTaskCompletionAchievements",
                   "unlockAchievement.select",
                   "unlockAchievement.insert"} -> 3
    [] loc.pc = "done" /\ resp.http = 200 /\ loc.status = "accepted" -> 4
    [] OTHER -> 0

C16_Reward(r) ==
  LET t == CHOOSE t \in tasks : t.id = h[r].taskId
  IN IF t.xpReward = 0 THEN 50 ELSE t.xpReward

C16_Done(r) ==
  LET p == C16_Phase(h[r], response[r])
  IN /\ p >= 1 =>
          /\ h[r].status = "accepted"
          /\ submissions[r].status = "accepted"
          /\ submissions[r].testCasesPassed = h[r].ret.totalPassed
          /\ submissions[r].totalTestCases = h[r].ret.totalTests
     /\ p >= 2 =>
          \E i \in 1..Len(userProgress) :
            /\ userProgress[i].userId = h[r].userId
            /\ userProgress[i].taskId = h[r].taskId
            /\ userProgress[i].isCompleted
     /\ p = 2 => h[r].amount = C16_Reward(r)
     /\ (p >= 3 /\ h[r].pc # "checkTaskCompletionAchievements")
          => h[r].completedTasks >= 1

C16_Order(r) ==
  LET p == C16_Phase(h[r], response[r])
      q == C16_Phase(h'[r], response'[r])
  IN h'[r] # h[r] =>
       /\ p = 0 => q \in {0, 1}
       /\ p = 1 => (q \in {1, 2} \/ h'[r].pc = "catch")
       /\ p = 2 => (q \in {2, 3} \/ h'[r].pc = "catch")
       /\ p = 3 => (q \in {3, 4} \/ h'[r].pc = "catch")
       /\ p = 4 => q = 4
       /\ (p = 0 /\ q = 1) => h[r].pc = "updateSubmission"
       /\ (p = 2 /\ q = 3 /\ h[r].pc = "updateUserXP.write") =>
            /\ xp'[h[r].userId] = h[r].currentXp + C16_Reward(r)
            /\ credited'["task"] = credited["task"] + C16_Reward(r)
       /\ (p = 2 /\ q = 3 /\ h[r].pc # "updateUserXP.write") =>
            /\ faults' = faults + 1
            /\ xp' = xp
       /\ ~(p = 2 /\ q = 3) => credited'["task"] = credited["task"]

C17_Frame(r) ==
  (h[r].status = "wrong_answer" /\ h'[r] # h[r])
    => (/\ UNCHANGED <<xp, userProgress, userAchievements, credited>>
        /\ submissions'[r].present = submissions[r].present
        /\ submissions'[r].userId = submissions[r].userId
        /\ submissions'[r].taskId = submissions[r].taskId
        /\ \A q \in Requests \ {r} : submissions'[q] = submissions[q])

C17_Persisted(r) ==
  (h[r].status = "wrong_answer" /\ h[r].pc = "done" /\ response[r].http = 200)
    => (/\ h[r].ret.totalPassed < h[r].ret.totalTests
        /\ submissions[r].status = "wrong_answer"
        /\ submissions[r].testCasesPassed = h[r].ret.totalPassed
        /\ submissions[r].totalTestCases = h[r].ret.totalTests)

(* C17: no step of a request whose verdict is wrong_answer changes the    *)
(* user's XP, the Progress Records or the unlocked achievements; it       *)
(* writes only status and counts of its own Submission, which end as      *)
(* wrong_answer with totalPassed < totalTests.                            *)
C17_WrongAnswerFrame ==
  /\ [](\A r \in Requests : C17_Persisted(r))
  /\ [][\A r \in Requests : C17_Frame(r)]_vars

C17_Witness ==
  \E r \in Requests :
    /\ h[r].pc = "done"
    /\ response[r].http = 200
    /\ submissions[r].status = "wrong_answer"
    /\ submissions[r].testCasesPassed = 1
    /\ submissions[r].totalTestCases = 2
    /\ xp[h[r].userId] = 35

(* C18: the store never holds two Progress Records with the same          *)
(* (user, course, module, task) key, also when two updateProgress calls   *)
(* for one key interleave.                                                *)
C18_OneRowPerKey ==
  \A i, j \in 1..Len(userProgress) :
    (/\ userProgress[i].userId = userProgress[j].userId
     /\ userProgress[i].courseId = userProgress[j].courseId
     /\ userProgress[i].moduleId = userProgress[j].moduleId
     /\ userProgress[i].taskId = userProgress[j].taskId)
      => i = j

(* the active tasks of the module of task t *)
C19_List(t) == {q \in tasks : q.moduleId = t.moduleId /\ q.isActive}

C19_First(t) == t.isActive /\ \A q \in C19_List(t) : q.order >= t.order

C19_PreviousCompleted(t, userId) ==
  /\ t.isActive
  /\ \E p \in C19_List(t) :
       /\ p.order < t.order
       /\ \A q \in C19_List(t) : ~(p.order < q.order /\ q.order < t.order)
       /\ \E i \in 1..Len(userProgress) :
            /\ userProgress[i].userId = userId
            /\ userProgress[i].taskId = p.id
            /\ userProgress[i].isCompleted

(* C19: isTaskUnlocked(user, task) returns a boolean; it is true exactly  *)
(* when the task is first in the order-sorted list of its module's tasks  *)
(* or the task just before it in that list has a completed Progress       *)
(* Record of that user, and false for a task that does not exist.         *)
C19_UnlockedIff ==
  call.result # "none" =>
    /\ call.result \in {"true", "false"}
    /\ call.result = "true"
         <=> \E t \in tasks :
               /\ t.id = call.taskId
               /\ (C19_First(t) \/ C19_PreviousCompleted(t, call.userId))
    /\ (\A t \in tasks : t.id # call.taskId) => call.result = "false"

C20_Quiet == \A c \in Callers : g[c].pc \in {"idle", "done"}

(* C20: once the generateCertificate calls made so far have ended (no    *)
(* store call having failed), every (user, course) has at most one        *)
(* certificate and the course's XP reward has been credited at most once. *)
C20_OneCertificate ==
  (C20_Quiet /\ faults = 0) =>
    /\ \A i, j \in 1..Len(certificates) :
         (/\ certificates[i].userId = certificates[j].userId
          /\ certificates[i].courseId = certificates[j].courseId)
           => i = j
    /\ credited["course"] <= 100

C21_SaysAccepted(resp) ==
  resp.http = 200 /\ resp.submission.status = "accepted"

C21_Settled(r) ==
  C21_SaysAccepted(response[r])
    => (/\ h[r].pc = "done"
        /\ \E i \in 1..Len(userProgress) :
             /\ userProgress[i].userId = response[r].submission.userId
             /\ userProgress[i].taskId = response[r].submission.taskId
             /\ userProgress[i].isCompleted
        /\ h[r].reason # ""
        /\ h[r].completedTasks >= 1)

C21_Last(r) ==
  (~C21_SaysAccepted(response[r]) /\ C21_SaysAccepted(response'[r]))
    => (/\ h[r].pc \in {"checkTaskCompletionAchievements",
                        "unlockAchievement.select",
                        "unlockAchievement.insert",
                        "updateUserXP.read", "updateUserXP.write"}
        /\ h[r].pc \in {"updateUserXP.read", "updateUserXP.write"}
             => h[r].reason # "task"
        /\ h'[r].pc = "done")

C21_Quiet(r) ==
  C21_SaysAccepted(response[r])
    => (h'[r] = h[r] /\ response'[r] = response[r])

C22_HiddenNotDisclosed ==
  \A r \in Requests :
    \A i \in 1..Len(response[r].results) :
      ~\E c \in TestCaseRows :
         /\ c.isHidden
         /\ c.taskId = response[r].submission.taskId
         /\ c.input = response[r].results[i].input
         /\ c.expectedOutput = response[r].results[i].expectedOutput

(* C24: executeCode called with a language that has no entry in the       *)
(* language mapping issues no submit and no poll request: the call fails  *)
(* before the first request.                                              *)
C24_UnsupportedBeforeRequest ==
  language \notin {"java", "python", "cpp", "c", "javascript"}
    => (netSubmits = 0 /\ netPolls = 0)

(* C25: every Progress Record the handler stored for a task carries the   *)
(* task id, the task's module id, and as course id the course of that     *)
(* module.                                                                *)
C25_RecordKeys ==
  \A i \in 1..Len(userProgress) :
    \E t \in tasks :
      /\ t.id = userProgress[i].taskId
      /\ userProgress[i].moduleId = t.moduleId
      /\ \E m \in ModuleRows :
           m.id = t.moduleId /\ userProgress[i].courseId = m.courseId

C27_Completed(u, id) ==
  \E i \in 1..Len(userProgress) :
    /\ userProgress[i].userId = u
    /\ userProgress[i].taskId = id
    /\ userProgress[i].isCompleted

(* C27: while the active tasks of a module stay the same, the tasks a     *)
(* user has completed in it form a prefix of the module's order: every    *)
(* active task ordered before a completed active task is completed too.   *)
C27_CompletedPrefix ==
  \A u \in Users :
    \A t \in TaskRows :
      (t.isActive /\ C27_Completed(u, t.id))
        => \A q \in TaskRows :
             (q.isActive /\ q.moduleId = t.moduleId /\ q.order < t.order)
               => C27_Completed(u, q.id)

C27_Witness ==
  /\ tasks = TaskRows
  /\ C27_Completed("u1", "t1")
  /\ C27_Completed("u1", "t2")
  /\ \E r \in Requests :
       h[r].pc = "done" /\ h[r].taskId = "t2" /\ response[r].http = 200

C28_CompletedTaskRecords(u) ==
  Cardinality({i \in 1..Len(userProgress) :
                 /\ userProgress[i].userId = u
                 /\ userProgress[i].taskId # ""
                 /\ userProgress[i].isCompleted})

(* C28: the achievement of milestone N is unlocked only for a user with   *)
(* at least N completed-task Progress Records: a user who holds the       *)
(* "10 Tasks" achievement has ten such records or more.                   *)
C28_UnlockedOnlyWhenReached ==
  \A i \in 1..Len(userAchievements) :
    userAchievements[i].achievementId = "a10"
      => C28_CompletedTaskRecords(userAchievements[i].userId) >= 10

(* C23: after an Accepted transition, the user holds an unlock record for *)
(* every reached milestone that has a matching achievement: once a        *)
(* request was answered 'accepted' with no store call rejected, its user  *)
(* holds the "1 Task" achievement.                                        *)
C23_ReachedMilestonesUnlocked ==
  \A r \in Requests :
    (/\ response[r].http = 200
     /\ response[r].submission.status = "accepted"
     /\ faults = 0)
      => \E i \in 1..Len(userAchievements) :
           /\ userAchievements[i].userId = response[r].submission.userId
           /\ userAchievements[i].achievementId = "a1"

C29_Reward(id) == (CHOOSE t \in TaskRows : t.id = id).xpReward

(* C29: every accepted submission credits the task reward, whether or not *)
(* the task was completed before: once every request is an accepted       *)
(* submission of t1 by u1, with no store call rejected and no achievement *)
(* with a reward unlocked, the user's XP is the number of submissions     *)
(* times the reward and one completed Progress Record exists for the      *)
(* pair.                                                                  *)
C29_EveryAcceptedCredits ==
  (/\ \A r \in Requests :
        /\ response[r].http = 200
        /\ response[r].submission.status = "accepted"
        /\ response[r].submission.userId = "u1"
        /\ response[r].submission.taskId = "t1"
   /\ faults = 0
   /\ \A i \in 1..Len(userAchievements) :
        userAchievements[i].achievementId = "a10")
    => (/\ xp["u1"] = Cardinality(Requests) * C29_Reward("t1")
        /\ Cardinality({i \in 1..Len(userProgress) :
                          /\ userProgress[i].userId = "u1"
                          /\ userProgress[i].taskId = "t1"
                          /\ userProgress[i].isCompleted}) = 1)

C30_NoDecrease == \A u \in Users : xp'[u] >= xp[u]

(* C30: a user's stored XP never decreases: every step that writes xp     *)
(* stores a value at least as large as the value stored before it.        *)
C30_XPMonotonic == [][C30_NoDecrease]_vars

(* C26: updateProgress treats an unset moduleId or taskId as a key value  *)
(* of its own: the record a call reuses has the call's module id and task *)
(* id, unset where the call's are unset.                                  *)
C26_UnsetIsKeyValue ==
  \A c \in Callers :
    (up[c].pc = "write" /\ up[c].existing > 0)
      => (/\ userProgress[up[c].existing].moduleId = up[c].moduleId
          /\ userProgress[up[c].existing].taskId = up[c].taskId)

====
